---- MODULE Spec2Model ----
(***************************************************************************)
(* Contact sheet generator.                                                *)
(*                                                                         *)
(* Part 1 models one run of generateContactSheet                           *)
(* (src/src/react-app/ContactSheetGenerator.tsx, lines 675-840): the grid  *)
(* layout, the parallel fetch/decode/resize tasks, the Promise.all join,   *)
(* the sequential pixel compositing loop and the PNG encoding.             *)
(*                                                                         *)
(* Part 2 models the two worker routes that call the engine                *)
(* (src/src/worker/index.ts): POST /api/generate-contact-sheet and         *)
(* POST /api/progressive-generate with its progressiveSessions map.        *)
(*                                                                         *)
(* Part 3 models the browser component's progressive upload flow           *)
(* (ContactSheetGenerator.tsx, lines 402-519) for several browsers that    *)
(* talk to the same worker.                                                *)
(*                                                                         *)
(* The canvas is modelled pixel by pixel (one function entry per RGBA      *)
(* pixel); byte offsets into the Uint8Array are kept as 4 * pixel index.   *)
(* The two awaits of one task (fetch, response.arrayBuffer) are folded     *)
(* into one step: between them a task touches only its own locals.         *)
(***************************************************************************)
EXTENDS Integers, Sequences, FiniteSets, TLC

VARIABLES
    \* ---- engine run (generateContactSheet) ----
    imageUrls,        \* the ordered reference list the caller passed
    options,          \* [thumbnailSize, columns, spacing]
    arrival,          \* environment: order in which the fetches settle
    resizeTraps,      \* environment: photon.resize traps on a zero size
    pc,               \* position of the run
    canvasWidth,      \* line 692
    canvasHeight,     \* line 693
    canvasPixels,     \* [0 .. W*H-1 -> pixel], line 777
    imagePromises,    \* one promise per started task, line 702
    settled,          \* number of fetches that have settled so far
    processedImages,  \* line 774, after filter(Boolean)
    cursor,           \* number of processedImages already composited
    lastWrites,       \* the destination writes of the last composite step
    result,           \* what the run returned / threw
    buffers,          \* wasm-side PhotonImages of the run -> free() calls
    \* ---- worker routes ----
    progressiveSessions,  \* Map sessionId -> session, worker/index.ts:291
    inflight,             \* handlers suspended in await generateContactSheet
    engineCalls,          \* number of generateContactSheet calls per caller
    lastResponse,         \* the HTTP response sent last
    served,               \* number of requests received so far
    \* ---- browser components ----
    now,                    \* the value Date.now() returns
    progressiveGeneration,  \* per component: the React state of line 332
    rendered,               \* per component: the progressiveGeneration value
                            \* the subscribed handlers closed over (line 529)
    uploadedFiles,          \* per component: the React state of line 329
    finalizing,             \* per component: progress of handleComplete
    outbox                  \* fetches sent to the worker, not yet handled

engineVars == <<imageUrls, options, arrival, resizeTraps, pc, canvasWidth, canvasHeight,
                canvasPixels, imagePromises, settled, processedImages,
                cursor, lastWrites, result, buffers>>
workerVars == <<progressiveSessions, inflight, engineCalls, lastResponse, served>>
clientVars == <<now, progressiveGeneration, rendered, uploadedFiles, finalizing,
                outbox>>
vars == <<imageUrls, options, arrival, resizeTraps, pc, canvasWidth, canvasHeight,
          canvasPixels, imagePromises, settled, processedImages,
          cursor, lastWrites, result, buffers,
          progressiveSessions, inflight, engineCalls, lastResponse, served,
          now, progressiveGeneration, rendered, uploadedFiles, finalizing,
          outbox>>

(***************************************************************************)
(* Bounds of the model.                                                    *)
(***************************************************************************)
\* runs of up to this many references settle in every order; the longer
\* runs settle first-to-last or last-to-first ...
MaxRefs == 2
\* ... and have 20 references, or this many more than 20
Surplus == 1
MaxColumns == 2
MaxThumb == 2
MaxSpacing == 1
\* largest thumbnailSize of the short runs with larger cells
MaxCell == 3
\* HTTP requests the worker receives in one behaviour
MaxRequests == 2
\* length of the imageUrls array of one request
MaxBatch == 1
\* the clock values Date.now() takes in one behaviour
MaxClock == 2
\* files one browser component uploads
MaxUploads == 2

\* the cap on the images of one run: Math.min(imageUrls.length, 20)
ImageCap == 20

(***************************************************************************)
(* Arithmetic helpers (JavaScript Math.* on the values the run uses).      *)
(***************************************************************************)
Min(a, b) == IF a <= b THEN a ELSE b

\* Math.ceil(a / b) for a >= 0, b >= 1
CeilDiv(a, b) == (a + b - 1) \div b

\* Math.floor(a / b) for b >= 1 (Integers' \div rounds toward minus infinity)
FloorDiv(a, b) == a \div b

(***************************************************************************)
(* Inputs of a run.                                                        *)
(*                                                                         *)
(* A reference is [id, res]: id is its position in the caller's list (the  *)
(* URLs of one list are distinct) and res is what the network and the      *)
(* decoder will answer for it:                                             *)
(*   ok          the fetch answers 2xx and the bytes decode to a w x h     *)
(*               image                                                     *)
(*   http_error  the fetch answers with a non-2xx status (response.ok is   *)
(*               false)                                                    *)
(*   net_error   the fetch promise rejects (transport error)               *)
(*   corrupt     the fetch answers 2xx, PhotonImage.new_from_byteslice     *)
(*               throws                                                    *)
(***************************************************************************)
\* natural sizes <<width, height>> of the decoded sources: a square, a
\* portrait and a landscape image
DecodedSizes == {<<1, 1>>, <<1, 2>>, <<3, 2>>}

\* sources much narrower or flatter than the box, for the runs that look at
\* the centring of a resampled image in its cell
SlimSizes == {<<3, 1>>, <<1, 3>>}

ResourcesOf(sizes) ==
    {[kind |-> "ok", w |-> sz[1], h |-> sz[2]] : sz \in sizes}
    \cup {[kind |-> k, w |-> 0, h |-> 0] :
              k \in {"http_error", "net_error", "corrupt"}}

Resources == ResourcesOf(DecodedSizes)

\* the list of n references that alternates the resources a and b
RefList(a, b, n) ==
    [k \in 1..n |-> [id |-> k, res |-> IF k % 2 = 1 THEN a ELSE b]]

\* the lengths of the reference lists
Counts == (1..MaxRefs) \cup {ImageCap, ImageCap + Surplus}

Configs ==
    [thumbnailSize : 1..MaxThumb, columns : 1..MaxColumns,
     spacing : 0..MaxSpacing]

\* configurations with larger cells, for short runs
CellConfigs ==
    [thumbnailSize : 1..MaxCell, columns : 1..MaxColumns,
     spacing : 0..MaxSpacing]

\* configurations the caller must not pass: a thumbnailSize or a columns of
\* 0.  They are taken one at a time and with a positive spacing, the cases
\* in which every value the run computes from them is a finite number or
\* the allocation at line 697 throws.
InvalidConfigs ==
    {c \in [thumbnailSize : 0..MaxThumb, columns : 0..MaxColumns,
            spacing : 1..MaxSpacing] :
        (c.thumbnailSize = 0) # (c.columns = 0)}

AllOrders(n) ==
    {f \in [1..n -> 1..n] : \A a, b \in 1..n : a # b => f[a] # f[b]}

\* settle orders: every order for a short run, first-to-last and
\* last-to-first for a long one
Arrivals(m) ==
    IF m <= MaxRefs THEN AllOrders(m)
    ELSE {[k \in 1..m |-> k], [k \in 1..m |-> m + 1 - k]}

(***************************************************************************)
(* Pixels.  rgba is the four bytes; src is the id of the reference whose   *)
(* photo the pixel was resampled from, 0 for a synthesised pixel.          *)
(***************************************************************************)
TransparentPixel == [rgba |-> <<255, 255, 255, 0>>, src |-> 0]
\* backgroundPixels.fill(255), line 698
WhitePixel == [rgba |-> <<255, 255, 255, 255>>, src |-> 0]

\* a pixel of the resampled photo of reference id (its colour is the
\* photo's; only its provenance matters here)
PhotoPixel(id) == [rgba |-> <<0, 0, 0, 255>>, src |-> id]

\* const colors = [[255,100,100],[100,255,100],[100,100,255],[255,200,100]]
colors == <<<<255, 100, 100>>, <<100, 255, 100>>,
            <<100, 100, 255>>, <<255, 200, 100>>>>

\* a PhotonImage of the given size whose pixels are all px
SolidImage(width, height, px) ==
    [width |-> width, height |-> height,
     pixels |-> [q \in 0..(width * height - 1) |-> px]]

(***************************************************************************)
(* Layout (lines 687-693, 704-708, 760-763).                               *)
(***************************************************************************)
thumbnailSize == options.thumbnailSize
columns == options.columns
spacing == options.spacing

\* const maxImages = Math.min(imageUrls.length, 20)
maxImages == Min(Len(imageUrls), ImageCap)

rowsFloor == FloorDiv(maxImages, columns)
\* const rows = Math.ceil(maxImages / columns)
rows == CeilDiv(maxImages, columns)

WidthOf(cols) == (cols * thumbnailSize) + ((cols + 1) * spacing)
HeightOf(rws) == (rws * thumbnailSize) + ((rws + 1) * spacing)

\* imageUrls.slice(0, maxImages)
SliceLast(urls, m) == [k \in 1..m |-> urls[Len(urls) - m + k]]
Slice(urls, m) == [k \in 1..m |-> urls[k]]

GridPositionOffByOne(i) ==
    LET row == FloorDiv(i, columns)
        col == i % (columns + 1)
    IN  [x |-> spacing + (col * (thumbnailSize + spacing)),
         y |-> spacing + (row * (thumbnailSize + spacing))]
\* the position computed on the success path, lines 705-708
GridPosition(i) ==
    LET row == FloorDiv(i, columns)
        col == i % columns
    IN  [x |-> spacing + (col * (thumbnailSize + spacing)),
         y |-> spacing + (row * (thumbnailSize + spacing))]

FallbackPositionSwapped(i) ==
    LET row == i % columns
        col == FloorDiv(i, columns)
    IN  [x |-> spacing + (col * (thumbnailSize + spacing)),
         y |-> spacing + (row * (thumbnailSize + spacing))]
\* the position computed on the fallback path, lines 760-763
FallbackPosition(i) ==
    LET row == FloorDiv(i, columns)
        col == i % columns
    IN  [x |-> spacing + (col * (thumbnailSize + spacing)),
         y |-> spacing + (row * (thumbnailSize + spacing))]

(***************************************************************************)
(* One task: fetch, decode, resize (lines 702-771).                        *)
(***************************************************************************)
\* a ratio num/den with den > 0
Ratio(num, den) == [num |-> num, den |-> den]
RatioMin(p, q) == IF p.num * q.den <= q.num * p.den THEN p ELSE q
\* Math.floor(n * p)
FloorTimes(n, p) == FloorDiv(n * p.num, p.den)

\* lines 724-729.  The quotients are IEEE doubles in the code; for the
\* sizes of this model the double computation gives exactly these values.
Scale(imgWidth, imgHeight) ==
    RatioMin(Ratio(thumbnailSize, imgWidth), Ratio(thumbnailSize, imgHeight))
newWidth(imgWidth, imgHeight) ==
    FloorTimes(imgWidth, Scale(imgWidth, imgHeight))
newHeight(imgWidth, imgHeight) ==
    FloorTimes(imgHeight, Scale(imgWidth, imgHeight))

Null == [kind |-> "null"]

\* the ProcessedImage returned at lines 741-745; path is a ghost field
\* naming the branch that built it
Resized(url, i) ==
    [kind |-> "image",
     photonImage |-> SolidImage(newWidth(url.res.w, url.res.h),
                                newHeight(url.res.w, url.res.h),
                                PhotoPixel(url.id)),
     position |-> GridPosition(i),
     index |-> i,
     path |-> "resized"]

FallbackPaletteByColumn(i) ==
    LET c == colors[(i % columns) + 1]
    IN  [kind |-> "image",
         photonImage |-> SolidImage(thumbnailSize, thumbnailSize,
                             [rgba |-> <<c[1], c[2], c[3], 255>>, src |-> 0]),
         position |-> FallbackPosition(i),
         index |-> i,
         path |-> "fallback"]
\* the ProcessedImage returned by the catch block, lines 747-770
Fallback(i) ==
    LET c == colors[(i % Len(colors)) + 1]
    IN  [kind |-> "image",
         photonImage |-> SolidImage(thumbnailSize, thumbnailSize,
                             [rgba |-> <<c[1], c[2], c[3], 255>>, src |-> 0]),
         position |-> FallbackPosition(i),
         index |-> i,
         path |-> "fallback"]

Fulfilled(v) == [state |-> "fulfilled", value |-> v]
Rejected == [state |-> "rejected", value |-> Null]
Pending == [state |-> "pending", value |-> Null]

TaskSettlementsUncaught(url, i) ==
    CASE url.res.kind = "http_error" -> {Fulfilled(Null)}
      [] url.res.kind = "net_error" -> {Rejected}
      [] url.res.kind = "corrupt" -> {Rejected}
      [] OTHER -> {Fulfilled(Resized(url, i))}
\* Every way the task of reference url with map index i can settle.
\*   !response.ok            -> return null               (line 715)
\*   fetch rejects           -> catch -> fallback         (lines 714, 747)
\*   new_from_byteslice throws -> catch -> fallback       (lines 718, 747)
\*   photon.resize to a zero width or height: the library build either
\*   returns the empty image or traps, and a trap lands in the catch block.
TaskSettlements(url, i) ==
    CASE url.res.kind = "http_error" -> {Fulfilled(Null)}
      [] url.res.kind = "net_error" -> {Fulfilled(Fallback(i))}
      [] url.res.kind = "corrupt" -> {Fulfilled(Fallback(i))}
      [] OTHER ->
            IF resizeTraps /\ (newWidth(url.res.w, url.res.h) < 1
                               \/ newHeight(url.res.w, url.res.h) < 1)
            THEN {Fulfilled(Fallback(i))}
            ELSE {Fulfilled(Resized(url, i))}

(***************************************************************************)
(* The run of generateContactSheet.                                        *)
(***************************************************************************)
NoCanvas == <<>>

\* The PhotonImage objects live in the wasm heap until free() is called on
\* them.  buffers maps each one the run has created to the number of free()
\* calls made on it; a PhotonImage is named by what it holds and the
\* position of its reference in the slice (0 for the two canvases).
NoBuffers == <<>>
CanvasBuffer == <<"canvas", 0>>
FinalCanvasBuffer == <<"finalCanvas", 0>>
DecodedBuffer(k) == <<"decoded", k>>
ResizedBuffer(k) == <<"resized", k>>
PlaceholderBuffer(k) == <<"placeholder", k>>

\* new PhotonImage / new_from_byteslice / resize: objects come to exist
Allocated(bufs, ids) ==
    [b \in (DOMAIN bufs) \cup ids |-> IF b \in DOMAIN bufs THEN bufs[b] ELSE 0]
\* .free() on each of ids
Freed(bufs, ids) ==
    [b \in DOMAIN bufs |-> IF b \in ids THEN bufs[b] + 1 ELSE bufs[b]]

\* The PhotonImages after the task of slice position k has run (lines
\* 714-770):
\*   non-2xx status or rejected fetch: nothing is decoded; the rejected
\*     fetch makes a placeholder (line 767)
\*   new_from_byteslice throws: only the placeholder exists
\*   resize returns: the decoded source is freed at line 739, the resized
\*     image is returned
\*   resize traps: line 739 is skipped, the catch block cannot reach the
\*     decoded source and makes the placeholder
TaskBuffers(bufs, url, k) ==
    CASE url.res.kind = "http_error" -> bufs
      [] url.res.kind = "net_error" -> Allocated(bufs, {PlaceholderBuffer(k)})
      [] url.res.kind = "corrupt" -> Allocated(bufs, {PlaceholderBuffer(k)})
      [] OTHER ->
            IF resizeTraps /\ (newWidth(url.res.w, url.res.h) < 1
                               \/ newHeight(url.res.w, url.res.h) < 1)
            THEN Allocated(bufs, {DecodedBuffer(k), PlaceholderBuffer(k)})
            ELSE Freed(Allocated(bufs, {DecodedBuffer(k), ResizedBuffer(k)}),
                       {DecodedBuffer(k)})

\* the PhotonImage a processed image holds
BufferOf(pr) ==
    IF pr.path = "resized" THEN ResizedBuffer(pr.index + 1)
    ELSE PlaceholderBuffer(pr.index + 1)

\* The run has been called with its arguments; nothing has executed yet.
InitEngineOver(resources, counts, configs) ==
    /\ \E a \in resources, b \in resources, n \in counts :
          imageUrls = RefList(a, b, n)
    /\ options \in configs
    /\ arrival \in Arrivals(Min(Len(imageUrls), ImageCap))
    /\ resizeTraps \in
          IF \E k \in 1..Len(imageUrls) :
                /\ imageUrls[k].res.kind = "ok"
                /\ \/ newWidth(imageUrls[k].res.w, imageUrls[k].res.h) < 1
                   \/ newHeight(imageUrls[k].res.w, imageUrls[k].res.h) < 1
          THEN BOOLEAN
          ELSE {FALSE}
    /\ pc = "called"
    /\ canvasWidth = 0
    /\ canvasHeight = 0
    /\ canvasPixels = NoCanvas
    /\ imagePromises = <<>>
    /\ settled = 0
    /\ processedImages = <<>>
    /\ cursor = 0
    /\ lastWrites = {}
    /\ result = [kind |-> "none"]
    /\ buffers = NoBuffers

InitEngine == InitEngineOver(Resources, Counts, Configs)

\* With columns = 0 and at least one reference, rows = Math.ceil(n / 0) is
\* Infinity (line 691); with a positive thumbnailSize and spacing
\* canvasHeight and canvasWidth * canvasHeight * 4 are Infinity, and
\* new Uint8Array(Infinity) throws a RangeError (line 697).
AllocationThrows ==
    columns = 0 /\ maxImages > 0 /\ thumbnailSize > 0 /\ spacing > 0

\* Lines 687-702: derive the dimensions, allocate the white canvas and start
\* one task per reference of the slice; every task runs up to its fetch.
\* A throw of the allocation is caught at line 837 and rethrown to the caller.
Invoke ==
    /\ pc = "called"
    /\ IF AllocationThrows
       THEN /\ pc' = "failed"
            /\ result' = [kind |-> "error"]
            /\ UNCHANGED <<canvasWidth, canvasHeight, canvasPixels,
                           imagePromises, buffers>>
       ELSE /\ buffers' = Allocated(buffers, {CanvasBuffer})
            /\ canvasWidth' = WidthOf(columns)
            /\ canvasHeight' = HeightOf(rows)
            /\ canvasPixels' =
                  [q \in 0..(WidthOf(columns) * HeightOf(rows) - 1) |->
                      WhitePixel]
            /\ imagePromises' =
                  [k \in 1..maxImages |->
                      [url |-> Slice(imageUrls, maxImages)[k], i |-> k - 1,
                       promise |-> Pending]]
            /\ pc' = "fetching"
            /\ UNCHANGED result
    /\ UNCHANGED <<imageUrls, options, arrival, resizeTraps, settled, processedImages,
                   cursor, lastWrites>>
    /\ UNCHANGED <<workerVars, clientVars>>

\* The continuation of task k with map index i runs to its return.
SettleWith(k, i) ==
    /\ pc = "fetching"
    /\ settled < Len(imagePromises)
    /\ k = arrival[settled + 1]
    /\ \E s \in TaskSettlements(imagePromises[k].url, i) :
          imagePromises' = [imagePromises EXCEPT ![k].promise = s]
    /\ settled' = settled + 1
    /\ buffers' = TaskBuffers(buffers, imagePromises[k].url, k)
    /\ UNCHANGED <<imageUrls, options, arrival, resizeTraps, pc, canvasWidth, canvasHeight,
                   canvasPixels, processedImages, cursor, lastWrites, result>>
    /\ UNCHANGED <<workerVars, clientVars>>

TaskSettleByArrival(k) == SettleWith(k, settled)
\* Lines 702-771: the fetch of task k settles; i is the index the map
\* callback closed over.
TaskSettle(k) == SettleWith(k, imagePromises[k].i)

RECURSIVE FilterBoolean(_)
\* .filter(Boolean): drop the nulls, keep the order
FilterBoolean(values) ==
    IF values = <<>> THEN <<>>
    ELSE IF Head(values).kind = "null" THEN FilterBoolean(Tail(values))
         ELSE <<Head(values)>> \o FilterBoolean(Tail(values))

\* Promise.all: the values in the order of the promises
PromiseAllValues == [k \in 1..Len(imagePromises) |-> imagePromises[k].promise.value]

JoinEager ==
    /\ pc = "fetching"
    /\ IF \E k \in 1..Len(imagePromises) :
              imagePromises[k].promise.state = "rejected"
       THEN /\ pc' = "failed"
            /\ result' = [kind |-> "error"]
            /\ UNCHANGED processedImages
       ELSE /\ pc' = "compositing"
            /\ processedImages' = FilterBoolean(PromiseAllValues)
            /\ UNCHANGED result
    /\ UNCHANGED <<imageUrls, options, arrival, resizeTraps, canvasWidth, canvasHeight,
                   canvasPixels, imagePromises, settled, cursor, lastWrites,
                   buffers>>
    /\ UNCHANGED <<workerVars, clientVars>>
\* Line 774-777: every task has settled; Promise.all rejects when a task
\* rejected (the outer catch then rethrows, line 838), otherwise the run
\* continues with the non-null results and a copy of the canvas pixels.
Join ==
    /\ pc = "fetching"
    /\ settled = Len(imagePromises)
    /\ IF \E k \in 1..Len(imagePromises) :
              imagePromises[k].promise.state = "rejected"
       THEN /\ pc' = "failed"
            /\ result' = [kind |-> "error"]
            /\ UNCHANGED processedImages
       ELSE /\ pc' = "compositing"
            /\ processedImages' = FilterBoolean(PromiseAllValues)
            /\ UNCHANGED result
    /\ UNCHANGED <<imageUrls, options, arrival, resizeTraps, canvasWidth, canvasHeight,
                   canvasPixels, imagePromises, settled, cursor, lastWrites,
                   buffers>>
    /\ UNCHANGED <<workerVars, clientVars>>

(***************************************************************************)
(* Compositing (lines 780-818).  img is the ProcessedImage's photonImage,  *)
(* pos its position.                                                       *)
(***************************************************************************)
offsetXRight(img) == thumbnailSize - img.width
\* lines 783-784
offsetX(img) == FloorDiv(thumbnailSize - img.width, 2)
offsetY(img) == FloorDiv(thumbnailSize - img.height, 2)

\* the length of the canvas Uint8Array, line 697
BufferLength == canvasWidth * canvasHeight * 4

\* the rows the outer loop reaches: it breaks at the first canvasY that is
\* not above the bottom edge (lines 789-791)
CopiedRows(img, pos) ==
    {y \in 0..(img.height - 1) : pos.y + offsetY(img) + y < canvasHeight}

\* line 797
RowFits(img, pos) == pos.x + offsetX(img) + img.width <= canvasWidth

DstOffsetStrideHeight(img, pos, y) ==
    (((pos.y + offsetY(img) + y) * canvasHeight) + pos.x + offsetX(img)) * 4
\* line 794, in bytes
DstOffset(img, pos, y) ==
    (((pos.y + offsetY(img) + y) * canvasWidth) + pos.x + offsetX(img)) * 4

\* TypedArray.prototype.set throws a RangeError when the source does not fit
\* at the offset (line 798)
SetThrows(img, pos, y) ==
    /\ RowFits(img, pos)
    /\ \/ DstOffset(img, pos, y) < 0
       \/ DstOffset(img, pos, y) + (img.width * 4) > BufferLength

\* the rows whose copy is attempted: every reached row up to the first one
\* whose block copy throws
AttemptedRows(img, pos) ==
    {y \in CopiedRows(img, pos) :
        \A y2 \in CopiedRows(img, pos) : y2 < y => ~SetThrows(img, pos, y2)}

\* Every pixel copy the loops attempt: the block path copies the whole row,
\* the pixel path stops at the right edge (lines 801-803).  dst is the byte
\* offset of the destination pixel, src the index of the source pixel.
CompositeWrites(img, pos) ==
    {[y |-> y, x |-> x,
      canvasY |-> pos.y + offsetY(img) + y,
      dst |-> DstOffset(img, pos, y) + (x * 4),
      src |-> (y * img.width) + x] :
        y \in AttemptedRows(img, pos),
        x \in {x2 \in 0..(img.width - 1) :
                  RowFits(img, pos) \/ pos.x + offsetX(img) + x2 < canvasWidth}}

\* a write lands when its four bytes are inside the buffer; an indexed store
\* outside a typed array is dropped
Lands(w) == w.dst >= 0 /\ w.dst + 3 < BufferLength

\* the canvas after the writes (a later copy overwrites an earlier one)
Painted(canvas, img, writes) ==
    LET landed == {w \in writes : Lands(w)}
        touched == {w.dst \div 4 : w \in landed}
    IN  [q \in DOMAIN canvas |->
            IF q \notin touched THEN canvas[q]
            ELSE LET hits == {w \in landed : w.dst = q * 4}
                 IN  img.pixels[(CHOOSE w \in hits :
                                    \A v \in hits : v.src <= w.src).src]]

\* One iteration of the loop at line 780: copy processedImages[cursor + 1]
\* into the canvas and free it (line 817).  A RangeError of the block copy ends the run in the
\* outer catch (line 838).
Composite ==
    /\ pc = "compositing"
    /\ cursor < Len(processedImages)
    /\ LET img == processedImages[cursor + 1].photonImage
           pos == processedImages[cursor + 1].position
           writes == CompositeWrites(img, pos)
       IN  /\ lastWrites' = writes
           /\ IF \E y \in CopiedRows(img, pos) : SetThrows(img, pos, y)
              THEN /\ pc' = "failed"
                   /\ result' = [kind |-> "error"]
                   /\ UNCHANGED <<canvasPixels, cursor, buffers>>
              ELSE /\ canvasPixels' = Painted(canvasPixels, img, writes)
                   /\ buffers' =
                         Freed(buffers, {BufferOf(processedImages[cursor + 1])})
                   /\ cursor' = cursor + 1
                   /\ UNCHANGED <<pc, result>>
    /\ UNCHANGED <<imageUrls, options, arrival, resizeTraps, canvasWidth, canvasHeight,
                   imagePromises, settled, processedImages>>
    /\ UNCHANGED <<workerVars, clientVars>>

\* Lines 821-835: make finalCanvas, encode the canvas pixels as a PNG, free
\* canvas and finalCanvas and return the bytes.
Encode ==
    /\ pc = "compositing"
    /\ cursor = Len(processedImages)
    /\ buffers' = Freed(Allocated(buffers, {FinalCanvasBuffer}),
                        {CanvasBuffer, FinalCanvasBuffer})
    /\ result' = [kind |-> "payload", format |-> "png",
                  width |-> canvasWidth, height |-> canvasHeight,
                  pixels |-> canvasPixels]
    /\ pc' = "done"
    /\ UNCHANGED <<imageUrls, options, arrival, resizeTraps, canvasWidth, canvasHeight,
                   canvasPixels, imagePromises, settled, processedImages,
                   cursor, lastWrites>>
    /\ UNCHANGED <<workerVars, clientVars>>

NextEngine ==
    \/ Invoke
    \/ \E k \in 1..Len(imagePromises) : TaskSettle(k)
    \/ Join
    \/ Composite
    \/ Encode

(***************************************************************************)
(* Worker routes (src/src/worker/index.ts).                                *)
(*                                                                         *)
(* A handler runs from the parsed request body to its first await of       *)
(* generateContactSheet, and from the engine's return or throw to its      *)
(* response.  Here the engine is its call: the arguments it is invoked     *)
(* with and whether it returns the PNG bytes or throws.                    *)
(***************************************************************************)
\* `session-${Date.now()}`, ContactSheetGenerator.tsx line 404
SessionToken(t) == <<"session-", t>>

\* the session ids of the requests
SessionIds == {SessionToken(1), SessionToken(2)}
Urls == {"u1", "u2"}

\* A JSON value of the request field imageUrls: absent, a non-empty string,
\* or an array of URLs.
UrlArrays == UNION {[1..len -> Urls] : len \in 0..MaxBatch}
ImageUrlsValues ==
    {[tag |-> t, items |-> <<>>] : t \in {"undefined", "string"}}
    \cup {[tag |-> "array", items |-> a] : a \in UrlArrays}

\* JavaScript truthiness of such a value
Truthy(v) == v.tag \in {"string", "array"}
\* Array.isArray
IsArray(v) == v.tag = "array"

\* an absent (falsy) sessionId
NoSession == <<>>
\* the caller of the engine in POST /api/generate-contact-sheet
Direct == <<"direct">>

\* the session created by an isFirst request, lines 313-321; invocations is
\* a ghost field counting the calls of generateContactSheet made for this
\* session object
NewSession(totalExpected) ==
    [imageUrls |-> <<>>,
     invocations |-> 0,
     processedCount |-> 0,
     totalExpected |-> IF totalExpected = 0 THEN 20 ELSE totalExpected,
     columns |-> 4,
     thumbnailSize |-> 200,
     spacing |-> 10]

\* the options of POST /api/generate-contact-sheet, lines 399-404
DirectOptions == [thumbnailSize |-> 200, columns |-> 4, spacing |-> 10]

ProgressiveRequests ==
    [sessionId : SessionIds \cup {NoSession},
     imageUrls : ImageUrlsValues,
     isFirst : BOOLEAN,
     isComplete : BOOLEAN,
     totalExpected : {0, 2}]

Callers ==
    SessionIds \cup {SessionToken(t) : t \in 1..MaxClock} \cup {Direct}

InitWorker ==
    /\ progressiveSessions = [s \in {} |-> NewSession(0)]
    /\ inflight = {}
    /\ engineCalls = [c \in Callers |-> 0]
    /\ lastResponse = [route |-> "none", status |-> 0, body |-> "none",
                       processedCount |-> 0]
    /\ served = 0

\* session.imageUrls.push(...imageUrls) when the field is an array, lines 330-332
Pushed(sessions, req) ==
    IF Truthy(req.imageUrls) /\ IsArray(req.imageUrls)
    THEN [sessions EXCEPT ![req.sessionId].imageUrls = @ \o req.imageUrls.items]
    ELSE sessions

\* the map after the isFirst branch, lines 312-322
Initialised(sessions, req) ==
    IF req.isFirst
    THEN [s \in (DOMAIN sessions) \cup {req.sessionId} |->
             IF s = req.sessionId THEN NewSession(req.totalExpected)
             ELSE sessions[s]]
    ELSE sessions

\* line 335
ProgressiveCompletes(req, session) ==
    req.isComplete /\ Len(session.imageUrls) > 0

\* POST /api/progressive-generate, lines 302-345 and 359-365: from the parsed
\* body to the response, or to the await of generateContactSheet.
ProgressiveRequest(req) ==
    /\ served < MaxRequests
    /\ served' = served + 1
    /\ IF req.sessionId = NoSession
       THEN /\ lastResponse' = [route |-> "progressive", status |-> 400,
                                body |-> "Session ID required", processedCount |-> 0]
            /\ UNCHANGED <<progressiveSessions, inflight, engineCalls>>
       ELSE LET created == Initialised(progressiveSessions, req)
            IN  IF req.sessionId \notin DOMAIN created
                THEN /\ lastResponse' = [route |-> "progressive", status |-> 400,
                                         body |-> "Invalid session", processedCount |-> 0]
                     /\ UNCHANGED <<progressiveSessions, inflight, engineCalls>>
                ELSE LET sessions == Pushed(created, req)
                         session == sessions[req.sessionId]
                     IN  /\ IF ProgressiveCompletes(req, session)
                            THEN /\ progressiveSessions' =
                                       [sessions EXCEPT
                                           ![req.sessionId].invocations = @ + 1]
                                 /\ inflight' = inflight \cup
                                       {[id |-> served + 1,
                                         route |-> "progressive",
                                         caller |-> req.sessionId,
                                         imageUrls |-> session.imageUrls,
                                         options |->
                                            [thumbnailSize |-> session.thumbnailSize,
                                             columns |-> session.columns,
                                             spacing |-> session.spacing]]}
                                 /\ engineCalls' =
                                       [engineCalls EXCEPT ![req.sessionId] = @ + 1]
                                 /\ UNCHANGED lastResponse
                            ELSE /\ progressiveSessions' = sessions
                                 /\ lastResponse' =
                                       [route |-> "progressive", status |-> 200,
                                        body |-> "processing",
                                        processedCount |->
                                            Len(session.imageUrls)]
                                 /\ UNCHANGED <<inflight, engineCalls>>
    /\ UNCHANGED engineVars

\* the map after progressiveSessions.delete(sessionId), line 348
Deleted(sessions, sessionId) ==
    [s \in (DOMAIN sessions) \ {sessionId} |-> sessions[s]]

\* Lines 346-356: generateContactSheet returned; discard the session and
\* answer with the PNG.
ProgressiveReturn(call) ==
    /\ call \in inflight
    /\ call.route = "progressive"
    /\ inflight' = inflight \ {call}
    /\ progressiveSessions' = Deleted(progressiveSessions, call.caller)
    /\ lastResponse' = [route |-> "progressive", status |-> 200,
                        body |-> "image/png", processedCount |-> 0]
    /\ UNCHANGED <<engineCalls, served>>
    /\ UNCHANGED engineVars

\* Lines 367-370: generateContactSheet threw; the catch answers 500 and the
\* session stays in the map.
ProgressiveThrow(call) ==
    /\ call \in inflight
    /\ call.route = "progressive"
    /\ inflight' = inflight \ {call}
    /\ lastResponse' = [route |-> "progressive", status |-> 500,
                        body |-> "Progressive generation failed",
                        processedCount |-> 0]
    /\ UNCHANGED <<progressiveSessions, engineCalls, served>>
    /\ UNCHANGED engineVars

GenerateRejectsFalsyOnly(v) == ~Truthy(v)
\* line 383
GenerateRejects(v) == ~Truthy(v) \/ ~IsArray(v) \/ Len(v.items) = 0

\* POST /api/generate-contact-sheet, lines 374-404: from the parsed body to
\* the 400 response, or to the await of generateContactSheet.
GenerateRequest(v) ==
    /\ served < MaxRequests
    /\ served' = served + 1
    /\ IF GenerateRejects(v)
       THEN /\ lastResponse' = [route |-> "generate", status |-> 400,
                                body |-> "No image URLs provided",
                                processedCount |-> 0]
            /\ UNCHANGED <<inflight, engineCalls>>
       ELSE /\ inflight' = inflight \cup
                  {[id |-> served + 1, route |-> "generate",
                    caller |-> Direct, imageUrls |-> v.items,
                    options |-> DirectOptions]}
            /\ engineCalls' = [engineCalls EXCEPT ![Direct] = @ + 1]
            /\ UNCHANGED lastResponse
    /\ UNCHANGED progressiveSessions
    /\ UNCHANGED engineVars

\* Lines 406-430: generateContactSheet returned; answer with the bytes.
GenerateReturn(call) ==
    /\ call \in inflight
    /\ call.route = "generate"
    /\ inflight' = inflight \ {call}
    /\ lastResponse' = [route |-> "generate", status |-> 200,
                        body |-> "image", processedCount |-> 0]
    /\ UNCHANGED <<progressiveSessions, engineCalls, served>>
    /\ UNCHANGED engineVars

\* Lines 432-454: generateContactSheet threw; the catch answers 500.
GenerateThrow(call) ==
    /\ call \in inflight
    /\ call.route = "generate"
    /\ inflight' = inflight \ {call}
    /\ lastResponse' = [route |-> "generate", status |-> 500,
                        body |-> "Failed to generate contact sheet",
                        processedCount |-> 0]
    /\ UNCHANGED <<progressiveSessions, engineCalls, served>>
    /\ UNCHANGED engineVars

\* the worker handling requests of any origin
NextWorker ==
    \/ \E req \in ProgressiveRequests :
          ProgressiveRequest(req) /\ UNCHANGED clientVars
    \/ \E call \in inflight : ProgressiveReturn(call) /\ UNCHANGED clientVars
    \/ \E call \in inflight : ProgressiveThrow(call) /\ UNCHANGED clientVars
    \/ \E v \in ImageUrlsValues : GenerateRequest(v) /\ UNCHANGED clientVars
    \/ \E call \in inflight : GenerateReturn(call) /\ UNCHANGED clientVars
    \/ \E call \in inflight : GenerateThrow(call) /\ UNCHANGED clientVars

(***************************************************************************)
(* Browser components (ContactSheetGenerator.tsx, lines 327-519).          *)
(*                                                                         *)
(* Each component holds its React state; its handlers run on the upload    *)
(* events of its uploader.  The handlers are the closures the effect of    *)
(* lines 413-529 subscribed at its last run: they read the                 *)
(* progressiveGeneration value of that render (rendered), and a state      *)
(* update reaches them only when the component has rendered again and the  *)
(* effect has re-subscribed (its dependencies are uppy and                 *)
(* progressiveGeneration).  The updater passed to setUploadedFiles gets    *)
(* the latest uploadedFiles.  A fetch to /api/progressive-generate is a    *)
(* message in outbox until the worker handles it; from and seq are ghost   *)
(* fields naming the sender and the upload the message belongs to.         *)
(***************************************************************************)
Clients == {"c1", "c2"}

\* useState initial values, lines 329-336
InitClients ==
    /\ now = 1
    /\ progressiveGeneration =
          [c \in Clients |->
              [sessionId |-> NoSession, isActive |-> FALSE, processedCount |-> 0]]
    /\ rendered =
          [c \in Clients |->
              [sessionId |-> NoSession, isActive |-> FALSE, processedCount |-> 0]]
    /\ uploadedFiles = [c \in Clients |-> <<>>]
    /\ finalizing = [c \in Clients |-> [state |-> "no", call |-> 0]]
    /\ outbox = {}

\* the clock advances
Tick ==
    /\ now < MaxClock
    /\ now' = now + 1
    /\ UNCHANGED <<progressiveGeneration, rendered, uploadedFiles, finalizing,
                   outbox>>
    /\ UNCHANGED <<engineVars, workerVars>>

\* Component c renders with its current state and the effect subscribes
\* handlers that close over it (lines 522-529).
Render(c) ==
    /\ rendered[c] # progressiveGeneration[c]
    /\ rendered' = [rendered EXCEPT ![c] = progressiveGeneration[c]]
    /\ UNCHANGED <<now, progressiveGeneration, uploadedFiles, finalizing, outbox>>
    /\ UNCHANGED <<engineVars, workerVars>>

\* lines 403-411: the token is made of the clock value alone
startProgressiveGeneration ==
    [sessionId |-> SessionToken(now), isActive |-> TRUE, processedCount |-> 0]

\* lines 413-473: handleUploadSuccess of component c for a file stored at
\* url.  The first upload starts the session and sends the isFirst request
\* (lines 440-453); a later upload sends its reference to the started
\* session (lines 454-465).
handleUploadSuccess(c, url) ==
    /\ Len(uploadedFiles[c]) < MaxUploads
    /\ finalizing[c].state = "no"
    /\ uploadedFiles' = [uploadedFiles EXCEPT ![c] = Append(@, url)]
    /\ IF Len(uploadedFiles[c]) = 0 /\ ~rendered[c].isActive
       THEN /\ progressiveGeneration' =
                  [progressiveGeneration EXCEPT ![c] = startProgressiveGeneration]
            /\ outbox' = outbox \cup
                  {[from |-> c, seq |-> 1,
                    req |-> [sessionId |-> startProgressiveGeneration.sessionId,
                             imageUrls |-> [tag |-> "array", items |-> <<url>>],
                             isFirst |-> TRUE,
                             isComplete |-> FALSE,
                             totalExpected |-> MaxUploads]]}
       ELSE /\ UNCHANGED progressiveGeneration
            /\ IF rendered[c].sessionId # NoSession
               THEN outbox' = outbox \cup
                       {[from |-> c, seq |-> Len(uploadedFiles[c]) + 1,
                         req |-> [sessionId |-> rendered[c].sessionId,
                                  imageUrls |-> [tag |-> "array", items |-> <<url>>],
                                  isFirst |-> FALSE,
                                  isComplete |-> FALSE,
                                  totalExpected |-> 0]]}
               ELSE UNCHANGED outbox
    /\ UNCHANGED <<now, rendered, finalizing>>
    /\ UNCHANGED <<engineVars, workerVars>>

\* lines 475-492: handleComplete of component c, up to its await of the
\* fetch.  The uploader emits `complete` once every file has been uploaded.
handleComplete(c) ==
    /\ Len(uploadedFiles[c]) = MaxUploads
    /\ finalizing[c].state = "no"
    /\ IF rendered[c].sessionId # NoSession
       THEN /\ finalizing' = [finalizing EXCEPT ![c].state = "sent"]
            /\ outbox' = outbox \cup
                  {[from |-> c, seq |-> 0,
                    req |-> [sessionId |-> rendered[c].sessionId,
                             imageUrls |-> [tag |-> "undefined", items |-> <<>>],
                             isFirst |-> FALSE,
                             isComplete |-> TRUE,
                             totalExpected |-> 0]]}
       ELSE /\ finalizing' = [finalizing EXCEPT ![c].state = "done"]
            /\ UNCHANGED outbox
    /\ UNCHANGED <<now, progressiveGeneration, rendered, uploadedFiles>>
    /\ UNCHANGED <<engineVars, workerVars>>

\* lines 494-513: the component's state after the response to its isComplete
\* request; a response with an ok status resets the session state
Answered(states, c, ok) ==
    IF ok
    THEN [states EXCEPT ![c] =
             [sessionId |-> NoSession, isActive |-> FALSE, processedCount |-> 0]]
    ELSE states

\* The worker handles the request of message m.  The sender ignores the
\* response unless the request was its isComplete request (lines 443-465
\* attach only a catch); an isComplete request is either answered at once
\* or suspended in the await of generateContactSheet.
Deliver(m) ==
    /\ m \in outbox
    /\ ProgressiveRequest(m.req)
    /\ outbox' = outbox \ {m}
    /\ IF ~m.req.isComplete
       THEN UNCHANGED <<progressiveGeneration, finalizing>>
       ELSE IF inflight' # inflight
            THEN /\ finalizing' =
                       [finalizing EXCEPT ![m.from] =
                           [state |-> "awaited", call |-> served + 1]]
                 /\ UNCHANGED progressiveGeneration
            ELSE /\ finalizing' = [finalizing EXCEPT ![m.from].state = "done"]
                 /\ progressiveGeneration' =
                       Answered(progressiveGeneration, m.from,
                                lastResponse'.status = 200)
    /\ UNCHANGED <<now, rendered, uploadedFiles>>

\* the component whose isComplete request made the call
Awaiting(call) ==
    {c \in Clients :
        finalizing[c].state = "awaited" /\ finalizing[c].call = call.id}

Finalized(call) ==
    [c \in Clients |->
        IF c \in Awaiting(call) THEN [state |-> "done", call |-> 0]
        ELSE finalizing[c]]

\* generateContactSheet returned: the worker answers with the PNG and the
\* component that awaits it resets its session state (lines 494-513)
ReturnToClient(call) ==
    /\ ProgressiveReturn(call)
    /\ finalizing' = Finalized(call)
    /\ progressiveGeneration' =
          [c \in Clients |->
              IF c \in Awaiting(call)
              THEN Answered(progressiveGeneration, c, TRUE)[c]
              ELSE progressiveGeneration[c]]
    /\ UNCHANGED <<now, rendered, uploadedFiles, outbox>>

\* generateContactSheet threw: the worker answers 500 and the component
\* keeps its session state (response.ok is false)
ThrowToClient(call) ==
    /\ ProgressiveThrow(call)
    /\ finalizing' = Finalized(call)
    /\ UNCHANGED <<now, progressiveGeneration, rendered, uploadedFiles, outbox>>

NextClients ==
    \/ Tick
    \/ \E c \in Clients : Render(c)
    \/ \E c \in Clients, url \in Urls : handleUploadSuccess(c, url)
    \/ \E c \in Clients : handleComplete(c)
    \/ \E m \in outbox : Deliver(m)
    \/ \E call \in inflight : ReturnToClient(call)
    \/ \E call \in inflight : ThrowToClient(call)

(***************************************************************************)
(* Specifications.                                                         *)
(***************************************************************************)
\* no run of the engine is modelled pixel by pixel
EngineIdle ==
    /\ imageUrls = <<>>
    /\ options = DirectOptions
    /\ arrival = <<>>
    /\ resizeTraps = FALSE
    /\ pc = "idle"
    /\ canvasWidth = 0
    /\ canvasHeight = 0
    /\ canvasPixels = NoCanvas
    /\ imagePromises = <<>>
    /\ settled = 0
    /\ processedImages = <<>>
    /\ cursor = 0
    /\ lastWrites = {}
    /\ result = [kind |-> "none"]
    /\ buffers = NoBuffers

Init == InitEngine /\ InitWorker /\ InitClients
Next == NextEngine
\* one run of generateContactSheet
Spec == Init /\ [][Next]_vars

InitInvalid ==
    /\ InitEngineOver(Resources, 1..MaxRefs, InvalidConfigs)
    /\ InitWorker
    /\ InitClients
\* one run of generateContactSheet called with a thumbnailSize or a columns
\* of 0
SpecInvalid == InitInvalid /\ [][Next]_vars

InitCentring ==
    /\ InitEngineOver(ResourcesOf(DecodedSizes \cup SlimSizes), 1..MaxRefs,
                      CellConfigs)
    /\ InitWorker
    /\ InitClients
\* one run over a short list, with cells of up to MaxCell pixels
SpecCentring == InitCentring /\ [][Next]_vars

InitRoutes == EngineIdle /\ InitWorker /\ InitClients
\* the worker's routes
SpecWorker == InitRoutes /\ [][NextWorker]_vars

\* browser components uploading through the progressive route
SpecClients == InitRoutes /\ [][NextClients]_vars

(***************************************************************************)
(* Properties of one run (checked under Spec, SpecCentring, SpecInvalid).  *)
(***************************************************************************)
\* the number of references the run works on, stated from the input alone
Capped == IF Len(imageUrls) > ImageCap THEN ImageCap ELSE Len(imageUrls)

\* the failures of a reference
FailureKinds == {"http_error", "net_error", "corrupt"}

\* the pixel indexes of the thumbnailSize-square cell whose origin is pos
CellPixels(pos) ==
    {(py * canvasWidth) + px :
        px \in pos.x..(pos.x + thumbnailSize - 1),
        py \in pos.y..(pos.y + thumbnailSize - 1)}

\* C1: once the run has allocated its canvas, the canvas is
\* columns*thumbnailSize + (columns+1)*spacing wide and
\* r*thumbnailSize + (r+1)*spacing high, r being the least number of rows of
\* `columns` cells that hold min(n, 20) images; the buffer has one pixel per
\* position and the encoded payload has the same dimensions.
CanvasDimensionsExact ==
    pc # "called" =>
        LET r == CHOOSE r \in 1..ImageCap :
                    (r - 1) * columns < Capped /\ Capped <= r * columns
            w == (columns * thumbnailSize) + ((columns + 1) * spacing)
            h == (r * thumbnailSize) + ((r + 1) * spacing)
        IN  /\ canvasWidth = w
            /\ canvasHeight = h
            /\ DOMAIN canvasPixels = 0..((w * h) - 1)
            /\ result.kind = "payload" =>
                  /\ result.width = w
                  /\ result.height = h
                  /\ DOMAIN result.pixels = 0..((w * h) - 1)

\* C1 witness: a run over more than 20 references, two columns, has encoded
\* its canvas.
CanvasDimensionsWitness ==
    /\ pc = "done"
    /\ result.kind = "payload"
    /\ Len(imageUrls) > ImageCap
    /\ columns = 2
    /\ spacing = 1

\* C2: every image a task produced, resampled or placeholder, carries the
\* origin x = spacing + col*(thumbnailSize+spacing),
\* y = spacing + row*(thumbnailSize+spacing) where its ordinal index is
\* row*columns + col with col < columns.
CellOriginByIndex ==
    \A k \in 1..Len(imagePromises) :
        LET p == imagePromises[k].promise
        IN  (p.state = "fulfilled" /\ p.value.kind = "image") =>
                \E row \in 0..ImageCap, col \in 0..(columns - 1) :
                    /\ k - 1 = (row * columns) + col
                    /\ p.value.position.x
                          = spacing + (col * (thumbnailSize + spacing))
                    /\ p.value.position.y
                          = spacing + (row * (thumbnailSize + spacing))

\* C2 witness: one run holds a resampled image and a placeholder, one of
\* them below the first row and one right of the first column.
CellOriginWitness ==
    /\ pc = "compositing"
    /\ \E a, b \in 1..Len(processedImages) :
          /\ processedImages[a].path = "resized"
          /\ processedImages[b].path = "fallback"
          /\ processedImages[b].position.y > spacing
          /\ processedImages[a].position.x > spacing

\* C3: given more than 20 references, the started tasks are exactly those of
\* the first 20 references, in input order, and the run does not fail.
TruncatesToFirstTwenty ==
    (Len(imageUrls) > ImageCap /\ pc # "called") =>
        /\ Len(imagePromises) = ImageCap
        /\ \A k \in 1..Len(imagePromises) : imagePromises[k].url = imageUrls[k]
        /\ {imagePromises[k].url.id : k \in 1..Len(imagePromises)} = 1..ImageCap
        /\ pc # "failed"
        /\ result.kind # "error"

\* C3 witness: a run over 21 references has returned its payload.
TruncatesWitness ==
    /\ Len(imageUrls) = ImageCap + 1
    /\ pc = "done"
    /\ result.kind = "payload"
    /\ Len(processedImages) = ImageCap

\* C4: whatever the order in which the fetches settle, the image (or
\* placeholder) held for input position k is the one placed at the cell of
\* ordinal k-1: a resampled image's pixels come from reference k, the images
\* are composited in ascending ordinal order, and in the encoded canvas the
\* pixels of reference k lie inside the cell of ordinal k-1.
PlacementFollowsInputOrder ==
    /\ \A k \in 1..Len(imagePromises) :
          LET p == imagePromises[k].promise
          IN  (p.state = "fulfilled" /\ p.value.kind = "image") =>
                 /\ p.value.index = imagePromises[k].url.id - 1
                 /\ p.value.position = GridPosition(imagePromises[k].url.id - 1)
                 /\ \A q \in DOMAIN p.value.photonImage.pixels :
                       p.value.photonImage.pixels[q].src \in {0, k}
    /\ \A a, b \in 1..Len(processedImages) :
          a < b => processedImages[a].index < processedImages[b].index
    /\ \A a \in 1..Len(processedImages) :
          processedImages[a]
             = imagePromises[processedImages[a].index + 1].promise.value
    /\ pc = "done" =>
          \A q \in DOMAIN canvasPixels :
              canvasPixels[q].src # 0 =>
                  q \in CellPixels(GridPosition(canvasPixels[q].src - 1))

\* C4 witness: the fetches settled last-to-first and the run composited two
\* or more images, a resampled photo among them.
PlacementWitness ==
    /\ pc = "done"
    /\ Len(arrival) >= 2
    /\ arrival[1] = Len(arrival)
    /\ Len(processedImages) >= 2
    /\ \E q \in DOMAIN canvasPixels : canvasPixels[q].src = Len(arrival)

\* C5 (as claimed): when the run has returned, the cell of every capped
\* reference whose fetch or decode failed is covered by its placeholder; no
\* pixel of such a cell is left background.
FailedReferenceGetsPlaceholder ==
    pc = "done" =>
        \A k \in 1..Capped :
            imageUrls[k].res.kind \in FailureKinds =>
                \A q \in CellPixels(GridPosition(k - 1)) :
                    result.pixels[q] # WhitePixel

\* C6: every pixel copy of a composite step has its four destination bytes
\* inside the canvas buffer, in the canvas row the copy was meant for, and
\* no block copy is rejected for not fitting.
WritesStayInBuffer ==
    /\ \A w \in lastWrites :
          /\ w.dst >= 0
          /\ w.dst + 3 < canvasWidth * canvasHeight * 4
          /\ w.canvasY < canvasHeight
          /\ (w.dst \div 4) \div canvasWidth = w.canvasY
    /\ pc = "compositing" =>
          \A a \in 1..Len(processedImages) :
              \A y \in CopiedRows(processedImages[a].photonImage,
                                  processedImages[a].position) :
                  ~SetThrows(processedImages[a].photonImage,
                             processedImages[a].position, y)

\* C6 witness: a composite step wrote the last pixel of the buffer (the
\* bottom-right cell of a grid without spacing) from an image in the last of
\* twenty cells.
WritesWitness ==
    /\ pc = "compositing"
    /\ cursor = ImageCap
    /\ \E w \in lastWrites : w.dst + 4 = canvasWidth * canvasHeight * 4

\* C7: when the canvas has been allocated and the tasks started, the cells
\* of the ordinals 0 .. min(n,20)-1 have pairwise different origins,
\* pairwise share no pixel, and each lies inside the canvas.
CellsDisjointInsideCanvas ==
    (pc = "fetching" /\ settled = 0) =>
        /\ \A i, j \in 0..(Capped - 1) :
              i # j =>
                 /\ GridPosition(i) # GridPosition(j)
                 /\ CellPixels(GridPosition(i)) \cap CellPixels(GridPosition(j)) = {}
        /\ \A i \in 0..(Capped - 1) :
              /\ GridPosition(i).x >= 0
              /\ GridPosition(i).y >= 0
              /\ GridPosition(i).x + thumbnailSize <= canvasWidth
              /\ GridPosition(i).y + thumbnailSize <= canvasHeight

\* C7 witness: a canvas of twenty cells in two columns, the largest
\* thumbnail and spacing.
CellsWitness ==
    /\ pc = "fetching"
    /\ settled = 0
    /\ Capped = ImageCap
    /\ columns = 2
    /\ thumbnailSize = MaxThumb
    /\ spacing = MaxSpacing

\* C8: when at least one capped reference resolves, no task is rejected, the
\* run never fails, and it ends with a payload.
PerImageFailuresAbsorbed ==
    (\E k \in 1..Capped : imageUrls[k].res.kind = "ok") =>
        /\ \A k \in 1..Len(imagePromises) :
              imagePromises[k].promise.state # "rejected"
        /\ pc # "failed"
        /\ result.kind # "error"
        /\ pc = "done" => result.kind = "payload"

\* C8 witness: a run with a resolved reference and a failed one has returned
\* its payload.
AbsorbedWitness ==
    /\ pc = "done"
    /\ result.kind = "payload"
    /\ \E k \in 1..Capped : imageUrls[k].res.kind = "ok"
    /\ \E k \in 1..Capped : imageUrls[k].res.kind \in {"net_error", "corrupt"}

\* C9 (as claimed): when no capped reference resolves, the run does not
\* return a payload.
FailsWhenNothingResolves ==
    (\A k \in 1..Capped : imageUrls[k].res.kind \in FailureKinds) =>
        /\ pc # "done"
        /\ result.kind # "payload"

\* C13 (as claimed): the resampled size of a decoded source w by h has both
\* dimensions at most thumbnailSize; a source smaller than the box on both
\* axes keeps its size (it is not upscaled), any other source has a
\* dimension equal to thumbnailSize.
ResampledFitsBoxWithoutUpscale ==
    \A k \in 1..Len(imagePromises) :
        LET p == imagePromises[k].promise
            w == imagePromises[k].url.res.w
            h == imagePromises[k].url.res.h
        IN  (p.state = "fulfilled" /\ p.value.kind = "image"
                                  /\ p.value.path = "resized") =>
                /\ p.value.photonImage.width <= thumbnailSize
                /\ p.value.photonImage.height <= thumbnailSize
                /\ IF w < thumbnailSize /\ h < thumbnailSize
                   THEN /\ p.value.photonImage.width = w
                        /\ p.value.photonImage.height = h
                   ELSE \/ p.value.photonImage.width = thumbnailSize
                        \/ p.value.photonImage.height = thumbnailSize

\* C14 (as claimed): a run called with columns <= 0 or thumbnailSize <= 0
\* fails; it never returns a payload.
InvalidConfigFails ==
    (columns <= 0 \/ thumbnailSize <= 0) =>
        /\ pc # "done"
        /\ result.kind # "payload"

\* C16: the placeholder made for the reference of ordinal index i is
\* thumbnailSize by thumbnailSize pixels, every pixel of it has the colour
\* of entry i mod 4 of the palette (255,100,100), (100,255,100),
\* (100,100,255), (255,200,100) with alpha 255, it is positioned at the
\* origin of cell i, and in the returned canvas every pixel of cell i has
\* that colour.
PlaceholderIsSolidPaletteBlock ==
    LET palette == <<<<255, 100, 100, 255>>, <<100, 255, 100, 255>>,
                     <<100, 100, 255, 255>>, <<255, 200, 100, 255>>>>
        placeholders ==
            {k \in 1..Len(imagePromises) :
                /\ imagePromises[k].promise.state = "fulfilled"
                /\ imagePromises[k].promise.value.kind = "image"
                /\ imagePromises[k].promise.value.path = "fallback"}
    IN  \A k \in placeholders :
            LET v == imagePromises[k].promise.value
                colour == palette[((k - 1) % 4) + 1]
                cellX == spacing + (((k - 1) % columns) * (thumbnailSize + spacing))
                cellY == spacing + (((k - 1) \div columns) * (thumbnailSize + spacing))
            IN  /\ v.photonImage.width = thumbnailSize
                /\ v.photonImage.height = thumbnailSize
                /\ DOMAIN v.photonImage.pixels
                      = 0..((thumbnailSize * thumbnailSize) - 1)
                /\ \A q \in DOMAIN v.photonImage.pixels :
                      v.photonImage.pixels[q].rgba = colour
                /\ v.position = [x |-> cellX, y |-> cellY]
                /\ pc = "done" =>
                      \A px \in cellX..(cellX + thumbnailSize - 1),
                         py \in cellY..(cellY + thumbnailSize - 1) :
                          result.pixels[(py * result.width) + px].rgba = colour

\* C16 witness: a run has returned a canvas that holds a placeholder of the
\* largest size for the reference of ordinal index 5, past the end of the
\* palette, in a grid of two columns.
PlaceholderWitness ==
    /\ pc = "done"
    /\ thumbnailSize = MaxThumb
    /\ columns = 2
    /\ Len(imagePromises) > 5
    /\ imagePromises[6].promise.value.kind = "image"
    /\ imagePromises[6].promise.value.path = "fallback"

\* C17: a step that writes to the allocated canvas (or advances the
\* compositing loop) happens only when no task of the run is still pending,
\* runs no task, composites exactly the next processed image - every pixel
\* it changes lies in that one image's cell - and that image has a higher
\* ordinal index than the image composited before it.
CompositesAfterTasksOneByOne ==
    [][(/\ canvasPixels # NoCanvas
        /\ \/ canvasPixels' # canvasPixels
           \/ lastWrites' # lastWrites
           \/ cursor' # cursor)
          => /\ \A k \in 1..Len(imagePromises) :
                   imagePromises[k].promise.state # "pending"
             /\ settled = Len(imagePromises)
             /\ imagePromises' = imagePromises
             /\ cursor' = cursor + 1
             /\ cursor' <= Len(processedImages)
             /\ \A q \in DOMAIN canvasPixels :
                   canvasPixels'[q] # canvasPixels[q] =>
                       q \in CellPixels(processedImages[cursor'].position)
             /\ cursor >= 1 =>
                   processedImages[cursor].index < processedImages[cursor'].index
      ]_vars

\* C17 witness: the fetches settled last-to-first and the loop has
\* composited its second image, a resampled photo, after a first one.
CompositesWitness ==
    /\ pc = "compositing"
    /\ cursor = 2
    /\ Len(arrival) >= 2
    /\ arrival[1] = Len(arrival)
    /\ lastWrites # {}
    /\ processedImages[2].path = "resized"
    /\ \E q \in DOMAIN canvasPixels :
          canvasPixels[q].src = processedImages[1].index + 1

\* the pixel indexes of the rectangle a processed image is composited to:
\* its own size, centred in its cell
ImageRectangle(pr) ==
    LET left == pr.position.x + ((thumbnailSize - pr.photonImage.width) \div 2)
        top == pr.position.y + ((thumbnailSize - pr.photonImage.height) \div 2)
    IN  {(py * canvasWidth) + px :
            px \in left..(left + pr.photonImage.width - 1),
            py \in top..(top + pr.photonImage.height - 1)}

\* C18: from its allocation until the first composite write every pixel of
\* the canvas is opaque white (255,255,255,255), and in the canvas handed to
\* the encoder every pixel outside the rectangles of the composited images
\* and placeholders is opaque white.
BackgroundStaysWhite ==
    /\ (pc = "fetching" \/ (pc = "compositing" /\ cursor = 0)) =>
          \A q \in DOMAIN canvasPixels :
              canvasPixels[q].rgba = <<255, 255, 255, 255>>
    /\ pc = "done" =>
          LET covered == UNION {ImageRectangle(processedImages[a]) :
                                   a \in 1..Len(processedImages)}
          IN  \A q \in DOMAIN result.pixels :
                  q \notin covered =>
                      result.pixels[q].rgba = <<255, 255, 255, 255>>

\* C18 witness: a returned canvas with a gutter, a resampled image narrower
\* than its cell (padding) and a last row with an unused cell.
BackgroundWitness ==
    /\ pc = "done"
    /\ spacing > 0
    /\ columns = 2
    /\ Len(imagePromises) = 1
    /\ Len(processedImages) = 1
    /\ processedImages[1].photonImage.width < thumbnailSize
    /\ processedImages[1].photonImage.width > 0

\* C19: the image composited last, pw by ph pixels with pw, ph at most
\* thumbnailSize, has been copied pixel for pixel to the rectangle whose
\* top-left is (cellX + floor((thumbnailSize-pw)/2),
\* cellY + floor((thumbnailSize-ph)/2)), (cellX, cellY) being the origin of
\* the cell of its ordinal index; both offsets are at least 0 and every
\* pixel written lies inside that cell.
CentredInsideOwnCell ==
    (pc \in {"compositing", "done"} /\ cursor >= 1) =>
        LET pr == processedImages[cursor]
            pw == pr.photonImage.width
            ph == pr.photonImage.height
            cellX == spacing + ((pr.index % columns) * (thumbnailSize + spacing))
            cellY == spacing + ((pr.index \div columns) * (thumbnailSize + spacing))
            left == cellX + ((thumbnailSize - pw) \div 2)
            top == cellY + ((thumbnailSize - ph) \div 2)
        IN  /\ pw <= thumbnailSize
            /\ ph <= thumbnailSize
            /\ left >= cellX
            /\ top >= cellY
            /\ {<<w.x, w.y>> : w \in lastWrites}
                  = (0..(pw - 1)) \X (0..(ph - 1))
            /\ \A w \in lastWrites :
                  LET px == left + w.x
                      py == top + w.y
                  IN  /\ w.dst = ((py * canvasWidth) + px) * 4
                      /\ w.src = (w.y * pw) + w.x
                      /\ px >= cellX
                      /\ px < cellX + thumbnailSize
                      /\ py >= cellY
                      /\ py < cellY + thumbnailSize
                      /\ px < canvasWidth
                      /\ canvasPixels[(py * canvasWidth) + px]
                            = pr.photonImage.pixels[w.src]

\* C19 witness: the loop has just copied a resampled image at least two
\* pixels lower than its cell, so it sits at a vertical offset of 1 or more,
\* in a grid with gutters.
CentredWitness ==
    /\ pc = "compositing"
    /\ cursor >= 1
    /\ processedImages[cursor].path = "resized"
    /\ processedImages[cursor].photonImage.height >= 1
    /\ processedImages[cursor].photonImage.height + 2 <= thumbnailSize
    /\ lastWrites # {}
    /\ spacing > 0

\* C20 (as claimed): no PhotonImage of the run is freed twice, a resampled
\* thumbnail is freed only after the loop has composited it, and when the
\* run has ended, by returning or by throwing, every PhotonImage it created
\* (decoded source, resampled thumbnail, placeholder, canvas) has been freed
\* exactly once.
EveryBufferFreedOnce ==
    /\ \A b \in DOMAIN buffers : buffers[b] <= 1
    /\ \A b \in DOMAIN buffers :
          (b[1] = "resized" /\ buffers[b] >= 1) =>
              \E a \in 1..cursor :
                  /\ processedImages[a].index + 1 = b[2]
                  /\ processedImages[a].path = "resized"
    /\ pc \in {"done", "failed"} =>
          \A b \in DOMAIN buffers : buffers[b] = 1

\* C22 (as claimed): with thumbnailSize at least 1, every task that decoded
\* a source of natural size w by h (w, h at least 1) and ran on to its resize
\* step passed it a width and a height that are both at least 1.
ResampledDimensionsPositive ==
    thumbnailSize >= 1 =>
        \A k \in 1..Len(imagePromises) :
            LET url == imagePromises[k].url
            IN  (imagePromises[k].promise.state # "pending"
                    /\ url.res.kind = "ok" /\ url.res.w >= 1 /\ url.res.h >= 1) =>
                    /\ newWidth(url.res.w, url.res.h) >= 1
                    /\ newHeight(url.res.w, url.res.h) >= 1

(***************************************************************************)
(* Properties of the worker routes (checked under SpecWorker).             *)
(***************************************************************************)
\* C10: no step leaves an engine call with an empty reference list in
\* flight; a generate request whose imageUrls is absent, not an array or
\* empty is answered 400 without a call; a progressive request makes a call
\* only when the session's accumulated list is non-empty.
EngineNeverInvokedEmpty ==
    [][/\ \A call \in inflight' : Len(call.imageUrls) > 0
       /\ \A v \in {x \in ImageUrlsValues :
                       x.tag # "array" \/ x.items = <<>>} :
             GenerateRequest(v) =>
                 /\ lastResponse'.status = 400
                 /\ inflight' = inflight
                 /\ engineCalls' = engineCalls
       /\ \A sid \in SessionIds :
             engineCalls'[sid] # engineCalls[sid] =>
                 /\ sid \in DOMAIN progressiveSessions'
                 /\ Len(progressiveSessions'[sid].imageUrls) > 0
                 /\ \E call \in inflight' \ inflight :
                       /\ call.caller = sid
                       /\ call.imageUrls = progressiveSessions'[sid].imageUrls
      ]_vars

\* C10 witness: a generate request was just rejected with 400 and made no
\* call, after a progressive session had been completed with a call.
InvokedWitness ==
    /\ lastResponse.route = "generate"
    /\ lastResponse.status = 400
    /\ engineCalls[Direct] = 0
    /\ \E sid \in SessionIds : engineCalls[sid] = 1

\* C11 (as claimed): generateContactSheet is invoked at most once for a
\* session, whatever the interleaving of the requests, and when a call made
\* for a session ends, by returning or by throwing, the session is no longer
\* in progressiveSessions.
SessionInvokedOnceThenDiscarded ==
    [][/\ \A sid \in DOMAIN progressiveSessions' :
             progressiveSessions'[sid].invocations <= 1
       /\ \A call \in inflight \ inflight' :
             call.route = "progressive" =>
                 call.caller \notin DOMAIN progressiveSessions'
      ]_vars

(***************************************************************************)
(* Properties of the upload flow (checked under SpecClients).              *)
(***************************************************************************)
\* C15 (as claimed): two components whose sessions are alive at the same
\* time never hold the same session token, and the worker never handles an
\* isFirst request for a token whose session is in progressiveSessions.
SessionTokensNeverCollide ==
    [][/\ \A c, d \in Clients :
             (/\ c # d
              /\ progressiveGeneration'[c].sessionId # NoSession
              /\ progressiveGeneration'[d].sessionId # NoSession)
                => progressiveGeneration'[c].sessionId
                      # progressiveGeneration'[d].sessionId
       /\ \A m \in outbox :
             (Deliver(m) /\ m.req.isFirst) =>
                 m.req.sessionId \notin DOMAIN progressiveSessions
      ]_vars

\* C21 (as claimed): when the worker handles the isComplete request of a
\* component, the session of that request exists and its imageUrls hold the
\* reference of every file the component has uploaded, so the list the
\* engine is called with holds them all.
EveryUploadInSessionAtComplete ==
    [][\A m \in outbox :
          (Deliver(m) /\ m.req.isComplete) =>
              /\ m.req.sessionId \in DOMAIN progressiveSessions
              /\ \A n \in 1..Len(uploadedFiles[m.from]) :
                    \E j \in 1..Len(progressiveSessions[m.req.sessionId].imageUrls) :
                        progressiveSessions[m.req.sessionId].imageUrls[j]
                           = uploadedFiles[m.from][n]
              /\ \A call \in inflight' \ inflight :
                    \A n \in 1..Len(uploadedFiles[m.from]) :
                        \E j \in 1..Len(call.imageUrls) :
                            call.imageUrls[j] = uploadedFiles[m.from][n]
      ]_vars

====
